---- MODULE Spec2Model ----
(***************************************************************************)
(* Model of the automated Excel reporting pipeline (generate_report.py).   *)
(* One run of main(): load config, two store queries, transform, output    *)
(* filename, report write (sheets, then charts), optional email, banner.   *)
(*                                                                         *)
(* Abstractions: the sales table keeps the columns product_name, category, *)
(* quantity, unit_price and total_amount (sale_id is the row position);    *)
(* money is an exact integer number of price units; strings that the code  *)
(* edits (the output path, the timestamp) are sequences of one-character   *)
(* strings.                                                                *)
(***************************************************************************)
EXTENDS Integers, Sequences, FiniteSets, TLC

VARIABLES
    pc,           \* position of main(): the step to run next, or "exit"
    exitCode,     \* process exit status (0 unless sys.exit(1) ran)
    cfg,          \* the settings file config.ini as found on disk
    world,        \* what the store, the file system, the mail server and the clock do
    db,           \* rows of the sales table, in sale_id order
    conns,        \* store connections: how many were opened / are still open
    df_raw,       \* result of fetch_sales_data
    df_summary,   \* result of get_sales_summary
    df_processed, \* result of process_data
    output_file,  \* the timestamped output path computed by main
    file,         \* the report file on disk
    mail,         \* notifier: message, attachment handle, SMTP session
    log,          \* lines printed so far
    trace,        \* steps of main() started so far, in order
    failures      \* failures raised so far by the environment

vars == << pc, exitCode, cfg, world, db, conns, df_raw, df_summary, df_processed,
           output_file, file, mail, log, trace, failures >>

-----------------------------------------------------------------------------
(* Bounds of the model *)

MaxRows == 3      \* rows in the sales table
MaxPieces == 3    \* pieces an output path is assembled from
MaxQuantity == 2  \* largest quantity of a row

-----------------------------------------------------------------------------
(* Strings as sequences of characters *)

EXT == << ".", "x", "l", "s", "x" >>

DigitChars == << "0", "1", "2", "3", "4", "5", "6", "7", "8", "9" >>

Digit(n) == DigitChars[n + 1]

Pad2(n) == << Digit((n \div 10) % 10), Digit(n % 10) >>

Pad4(n) == << Digit((n \div 1000) % 10), Digit((n \div 100) % 10) >> \o Pad2(n)

\* datetime.strftime('%Y%m%d_%H%M%S')
strftime(now) ==
    Pad4(now.Y) \o Pad2(now.m) \o Pad2(now.d) \o << "_" >>
        \o Pad2(now.H) \o Pad2(now.M) \o Pad2(now.S)

StartsWith(s, p) == Len(s) >= Len(p) /\ SubSeq(s, 1, Len(p)) = p

\* str.replace(old, new): every non-overlapping occurrence, left to right
RECURSIVE Replace(_, _, _)
Replace(s, old, new) ==
    IF Len(s) < Len(old) THEN s
    ELSE IF StartsWith(s, old)
         THEN new \o Replace(SubSeq(s, Len(old) + 1, Len(s)), old, new)
         ELSE << s[1] >> \o Replace(Tail(s), old, new)

\* main, step 6: output_file.replace('.xlsx', f'_{timestamp}.xlsx')
Stamp(now) == << "_" >> \o strftime(now)

TimestampedName(path, now) == Replace(path, EXT, Stamp(now) \o EXT)

-----------------------------------------------------------------------------
(* The summary query *)

RECURSIVE SumOver(_, _)
SumOver(f, S) ==
    IF S = {} THEN 0
    ELSE LET i == CHOOSE i \in S : TRUE IN f[i] + SumOver(f, S \ {i})

\* grouping by the product alone
ProductOf(r) == << r.product_name >>

\* GROUP BY product_name, category
GroupKeyOf(r) == << r.product_name, r.category >>

GroupKeys(rows) == { GroupKeyOf(rows[i]) : i \in DOMAIN rows }

GroupRows(rows, k) == { i \in DOMAIN rows : GroupKeyOf(rows[i]) = k }

\* COUNT(*), SUM(quantity), SUM(total_amount), AVG(total_amount) of one group;
\* the average is kept as the exact fraction num/den
SummaryRow(rows, k) ==
    LET g == GroupRows(rows, k)
        r == rows[CHOOSE i \in g : TRUE]
    IN [ product_name   |-> r.product_name,
         category       |-> r.category,
         total_sales    |-> Cardinality(g),
         total_quantity |-> SumOver([i \in DOMAIN rows |-> rows[i].quantity], g),
         total_revenue  |-> SumOver([i \in DOMAIN rows |-> rows[i].total_amount], g),
         avg_sale_amount |->
             [ num |-> SumOver([i \in DOMAIN rows |-> rows[i].total_amount], g),
               den |-> Cardinality(g) ] ]

\* ORDER BY total_revenue (ascending)
OrderedAsc(a, b) == a.total_revenue <= b.total_revenue

\* ORDER BY total_revenue DESC

OrderedDesc(a, b) == a.total_revenue >= b.total_revenue

IsOrdered(s) == \A i, j \in DOMAIN s : i < j => OrderedDesc(s[i], s[j])

\* The results the query may return: one row per group, ordered by revenue;
\* SQL leaves the relative order of rows with equal revenue open.
SummaryResults(rows) ==
    LET ks == GroupKeys(rows)
        n  == Cardinality(ks)
    IN { s \in [1..n -> { SummaryRow(rows, k) : k \in ks }] :
             /\ \A i, j \in 1..n : i # j => s[i] # s[j]
             /\ IsOrdered(s) }

-----------------------------------------------------------------------------
(* The environment of a run *)

\* (product_name, category, unit_price) of the products on sale
Products == { << "Desk", "Furniture", 2 >>, << "Mouse", "Electronics", 1 >>,
              << "Mouse", "Furniture", 1 >> }

\* a sale: total_amount = quantity * unit_price, stored with the row
SaleRows ==
    { [ product_name |-> p[1], category |-> p[2], quantity |-> q,
        unit_price |-> p[3], total_amount |-> q * p[3] ] :
      p \in Products, q \in 1..MaxQuantity }

RECURSIVE SeqsUpTo(_, _)
SeqsUpTo(S, n) ==
    IF n = 0 THEN { << >> }
    ELSE LET shorter == SeqsUpTo(S, n - 1)
         IN shorter \cup { Append(s, x) : s \in { t \in shorter : Len(t) = n - 1 },
                                         x \in S }

Tables == SeqsUpTo(SaleRows, MaxRows)

Pieces == { << "r" >>, << "/" >>, << "x" >>, << ".", "x", "l", "s" >>, EXT }

RECURSIVE Concat(_)
Concat(ps) == IF ps = << >> THEN << >> ELSE Head(ps) \o Concat(Tail(ps))

Paths == { Concat(ps) : ps \in SeqsUpTo(Pieces, MaxPieces) \ { << >> } }

Clocks == { [ Y |-> 2026, m |-> 1, d |-> 5, H |-> 9, M |-> 3, S |-> 7 ],
            [ Y |-> 2026, m |-> 12, d |-> 31, H |-> 23, M |-> 59, S |-> 58 ] }

DefaultPath == << "r" >> \o EXT

DefaultTable ==
    << [ product_name |-> "Mouse", category |-> "Electronics", quantity |-> 2,
         unit_price |-> 1, total_amount |-> 2 ],
       [ product_name |-> "Desk", category |-> "Furniture", quantity |-> 1,
         unit_price |-> 2, total_amount |-> 2 ] >>

\* config.ini: whether it exists and parses, and which of the keys that main
\* and send_email read are there
Settings ==
    [ exists : BOOLEAN, parses : BOOLEAN, has_db_path : BOOLEAN,
      has_output_path : BOOLEAN, output_path : { DefaultPath },
      email_section : BOOLEAN,
      send_email : { "true", "false", "off", "absent", "maybe" },
      email_settings_ok : BOOLEAN ]

DefaultSettings ==
    [ exists |-> TRUE, parses |-> TRUE, has_db_path |-> TRUE,
      has_output_path |-> TRUE, output_path |-> DefaultPath,
      email_section |-> TRUE, send_email |-> "true",
      email_settings_ok |-> TRUE ]

\* What the world outside the script does in this run: which store, file and
\* mail operation raises, and what the clock shows at step 6
Worlds ==
    [ raw : { "ok", "connect", "query" },
      summary : { "ok", "connect", "query" },
      transform : { "ok", "raise" },
      phaseA : { "ok", "open", "write" },
      phaseB : { "ok", "load", "sheet", "chart", "save_open", "save_write" },
      email : { "ok", "attach_open", "attach_read", "connect", "starttls",
                "login", "send" },
      clock : Clocks ]

CalmWorld ==
    [ raw |-> "ok", summary |-> "ok", transform |-> "ok", phaseA |-> "ok",
      phaseB |-> "ok", email |-> "ok",
      clock |-> [ Y |-> 2026, m |-> 1, d |-> 5, H |-> 9, M |-> 3, S |-> 7 ] ]

-----------------------------------------------------------------------------
(* Values of the state *)

Line(lvl, msg) == [ lvl |-> lvl, msg |-> msg, e |-> "" ]

LineE(lvl, msg, e) == [ lvl |-> lvl, msg |-> msg, e |-> e ]

Logged(msg) == \E i \in DOMAIN log : log[i].msg = msg

startrow == 4

NoFile ==
    [ state |-> "absent", name |-> << >>, header_row |-> 0, summary |-> << >>,
      total_revenue |-> 0, total_quantity |-> 0, data |-> << >>,
      charts |-> << >> ]

PartialFile(name) == [ NoFile EXCEPT !.state = "partial", !.name = name ]

NoMail ==
    [ msg |-> "none", attachment |-> "unopened", session |-> "none",
      sent |-> FALSE ]

-----------------------------------------------------------------------------
(* Ways a step ends *)

\* sys.exit(1): SystemExit is not an Exception, so no handler of the script
\* catches it and the process ends with status 1
SysExit1(lines, f) ==
    /\ log' = log \o lines
    /\ failures' = failures \cup { f }
    /\ exitCode' = 1
    /\ pc' = "exit"

\* an exception no component handles reaches the handler of main
Uncaught(lines, e) ==
    SysExit1(lines \o << LineE("FATAL ERROR", "Program failed", e) >>, "uncaught")

\* the step returns; fs are the failures it caught and absorbed on the way
Continue(lines, next, fs) ==
    /\ log' = log \o lines
    /\ pc' = next
    /\ failures' = failures \cup fs
    /\ UNCHANGED exitCode

Start(step) == trace' = Append(trace, step)

-----------------------------------------------------------------------------
(* Step 1: load_config *)

\* the error is printed but the function returns
ConfigMissingReturns(lines) == Continue(lines, "db_path", { "config_missing" })

\* if not os.path.exists('config.ini'): print, print, sys.exit(1)
ConfigMissing(lines) == SysExit1(lines, "config_missing")

LoadConfig ==
    /\ pc = "load_config"
    /\ Start("load_config")
    /\ IF ~cfg.exists
       THEN ConfigMissing(<< Line("INFO", "Loading configuration..."),
                             Line("ERROR", "config.ini file not found!"),
                             Line("INFO", "Please create config.ini file with your settings.") >>)
       ELSE IF ~cfg.parses
       THEN Uncaught(<< Line("INFO", "Loading configuration...") >>, "config.read")
       ELSE Continue(<< Line("INFO", "Loading configuration..."),
                        Line("SUCCESS", "Configuration loaded successfully.") >>,
                     "db_path", {})
    /\ UNCHANGED << cfg, world, db, conns, df_raw, df_summary, df_processed,
                    output_file, file, mail >>

(* Step 2: db_path = config['DATABASE']['db_path'] *)

GetDbPath ==
    /\ pc = "db_path"
    /\ Start("db_path")
    /\ IF ~cfg.has_db_path
       THEN Uncaught(<< >>, "KeyError")
       ELSE Continue(<< >>, "fetch_sales_data", {})
    /\ UNCHANGED << cfg, world, db, conns, df_raw, df_summary, df_processed,
                    output_file, file, mail >>

-----------------------------------------------------------------------------
(* Steps 3 and 4: the two store queries *)

\* sqlite3.connect ... pd.read_sql_query ... conn.close(): the connection is
\* closed by the statement after the query, which a raising query skips
ConnAfter(outcome) ==
    CASE outcome = "connect" -> conns
      [] outcome = "query"   -> [ opened |-> conns.opened + 1, open |-> conns.open + 1 ]
      [] OTHER               -> [ opened |-> conns.opened + 1, open |-> conns.open ]

\* SELECT sale_id, ... FROM sales; sale_date is not among the columns kept,
\* so the rows stay in sale_id order
Fetched(rows) ==
    [ i \in DOMAIN rows |->
        [ sale_id |-> i, product_name |-> rows[i].product_name,
          category |-> rows[i].category, quantity |-> rows[i].quantity,
          unit_price |-> rows[i].unit_price,
          total_amount |-> rows[i].total_amount ] ]

FetchSalesData ==
    /\ pc = "fetch_sales_data"
    /\ Start("fetch_sales_data")
    /\ conns' = ConnAfter(world.raw)
    /\ IF world.raw = "connect"
       THEN /\ SysExit1(<< Line("INFO", "Connecting to database"),
                           LineE("ERROR", "Failed to fetch data from database", "connect") >>,
                        "fetch_failed")
            /\ UNCHANGED df_raw
       ELSE IF world.raw = "query"
       THEN /\ SysExit1(<< Line("INFO", "Connecting to database"),
                           Line("SUCCESS", "Database connection established."),
                           Line("INFO", "Executing SQL query to fetch sales data..."),
                           LineE("ERROR", "Failed to fetch data from database", "query") >>,
                        "fetch_failed")
            /\ UNCHANGED df_raw
       ELSE /\ Continue(<< Line("INFO", "Connecting to database"),
                           Line("SUCCESS", "Database connection established."),
                           Line("INFO", "Executing SQL query to fetch sales data..."),
                           Line("SUCCESS", "Fetched sales records.") >>,
                        "get_sales_summary", {})
            /\ df_raw' = Fetched(db)
    /\ UNCHANGED << cfg, world, db, df_summary, df_processed, output_file, file, mail >>

\* the error is printed but the function returns
SummaryFailedReturns(lines) == Continue(lines, "process_data", { "summary_failed" })

\* except Exception in get_sales_summary: print, sys.exit(1)
SummaryFailed(lines) == SysExit1(lines, "summary_failed")

GetSalesSummary ==
    /\ pc = "get_sales_summary"
    /\ Start("get_sales_summary")
    /\ conns' = ConnAfter(world.summary)
    /\ IF world.summary \in { "connect", "query" }
       THEN /\ SummaryFailed(<< Line("INFO", "Calculating sales summary..."),
                                LineE("ERROR", "Failed to calculate summary", world.summary) >>)
            /\ UNCHANGED df_summary
       ELSE /\ Continue(<< Line("INFO", "Calculating sales summary..."),
                           Line("SUCCESS", "Summary calculated.") >>,
                        "process_data", {})
            /\ \E s \in SummaryResults(db) : df_summary' = s
    /\ UNCHANGED << cfg, world, db, df_raw, df_processed, output_file, file, mail >>

-----------------------------------------------------------------------------
(* Step 5: process_data *)

\* DataFrame.drop_duplicates(): keeps the first of the rows equal in every column
RECURSIVE DropDuplicates(_)
DropDuplicates(s) ==
    IF s = << >> THEN << >>
    ELSE LET init == DropDuplicates(SubSeq(s, 1, Len(s) - 1))
             last == s[Len(s)]
         IN IF \E i \in DOMAIN init : init[i] = last THEN init
            ELSE Append(init, last)

ProcessData ==
    /\ pc = "process_data"
    /\ Start("process_data")
    /\ IF world.transform = "raise"
       THEN /\ Uncaught(<< Line("INFO", "Processing data with pandas...") >>, "to_datetime")
            /\ UNCHANGED df_processed
       ELSE /\ Continue(<< Line("INFO", "Processing data with pandas..."),
                           Line("SUCCESS", "Data processing complete.") >>,
                        "output_file", {})
            /\ df_processed' = DropDuplicates(df_raw)
    /\ UNCHANGED << cfg, world, db, conns, df_raw, df_summary, output_file, file, mail >>

(* Step 6: the timestamped output filename *)

OutputFile ==
    /\ pc = "output_file"
    /\ Start("output_file")
    /\ IF ~cfg.has_output_path
       THEN /\ Uncaught(<< >>, "KeyError")
            /\ UNCHANGED output_file
       ELSE /\ Continue(<< >>, "generate_excel_report", {})
            /\ output_file' = TimestampedName(cfg.output_path, world.clock)
    /\ UNCHANGED << cfg, world, db, conns, df_raw, df_summary, df_processed, file, mail >>

-----------------------------------------------------------------------------
(* Step 7: generate_excel_report and add_charts_to_report *)

SumColumn(s, col) == SumOver([ i \in DOMAIN s |-> s[i][col] ], DOMAIN s)

\* Phase A: the two sheets as the ExcelWriter block leaves them on disk
PhaseAFile(name, data, summary) ==
    [ state |-> "written", name |-> name, header_row |-> startrow + 1,
      summary |-> summary,
      total_revenue |-> SumColumn(summary, "total_revenue"),
      total_quantity |-> SumColumn(summary, "total_quantity"),
      data |-> data, charts |-> << >> ]

Reference(min_col, min_row, max_row) ==
    [ min_col |-> min_col, min_row |-> min_row, max_row |-> max_row ]

Charts(data_rows) ==
    << [ type |-> "bar", title |-> "Revenue by Product", anchor |-> "H5",
         categories |-> Reference(1, 5, 5 + data_rows),
         data |-> Reference(5, 4, 5 + data_rows), titles_from_data |-> TRUE ],
       [ type |-> "line", title |-> "Quantity Sold by Product", anchor |-> "H22",
         categories |-> Reference(1, 5, 5 + data_rows),
         data |-> Reference(4, 4, 5 + data_rows), titles_from_data |-> TRUE ] >>

\* columns of the Summary sheet: the SELECT list, written without an index
SummaryColumns ==
    << "product_name", "category", "total_sales", "total_quantity",
       "total_revenue", "avg_sale_amount" >>

ColumnOf(name) == CHOOSE c \in DOMAIN SummaryColumns : SummaryColumns[c] = name

\* add_data(ref, titles_from_data=True): the first cell of the range is the
\* title of the series, the cells below it are its data points
SeriesTitleRow(chart) == chart.data.min_row

SeriesDataRows(chart) ==
    IF chart.titles_from_data
    THEN (chart.data.min_row + 1)..chart.data.max_row
    ELSE chart.data.min_row..chart.data.max_row

\* set_categories(ref): every cell of the range is a category label
CategoryRows(chart) == chart.categories.min_row..chart.categories.max_row

\* Phase B: load_workbook, wb['Summary'], the two charts, wb.save over the
\* same path.  A save that raises before the path is opened for writing
\* leaves the file alone; one that raises while writing leaves a partial file.
AddCharts(f, data_rows, outcome) ==
    CASE outcome = "ok"         -> [ f EXCEPT !.charts = Charts(data_rows) ]
      [] outcome = "save_write" -> PartialFile(f.name)
      [] OTHER                  -> f

\* the chart failure escapes to the handler of generate_excel_report
ChartsUnhandled(lines, outcome) ==
    SysExit1(lines \o << LineE("ERROR", "Failed to add charts", outcome) >>,
             "chart_failed")

\* except Exception in add_charts_to_report: print and return
ChartsHandled(lines, outcome) ==
    Continue(lines \o << LineE("ERROR", "Failed to add charts", outcome),
                         Line("SUCCESS", "Excel report generated") >>,
             "notify", { "chart_failed" })

GenerateExcelReport ==
    /\ pc = "generate_excel_report"
    /\ Start("generate_excel_report")
    /\ IF world.phaseA = "open"
       THEN /\ SysExit1(<< Line("INFO", "Generating Excel report"),
                           LineE("ERROR", "Failed to generate Excel report", "open") >>,
                        "phaseA_failed")
            /\ UNCHANGED file
       ELSE IF world.phaseA = "write"
       THEN /\ SysExit1(<< Line("INFO", "Generating Excel report"),
                           Line("INFO", "Creating Summary sheet..."),
                           LineE("ERROR", "Failed to generate Excel report", "write") >>,
                        "phaseA_failed")
            /\ file' = PartialFile(output_file)
       ELSE /\ file' = AddCharts(PhaseAFile(output_file, df_processed, df_summary),
                                 Len(df_summary), world.phaseB)
            /\ IF world.phaseB = "ok"
               THEN Continue(<< Line("INFO", "Generating Excel report"),
                                Line("INFO", "Creating Summary sheet..."),
                                Line("INFO", "Creating Data sheet..."),
                                Line("INFO", "Adding charts to report..."),
                                Line("SUCCESS", "Charts added to report."),
                                Line("SUCCESS", "Excel report generated") >>,
                             "notify", {})
               ELSE ChartsHandled(<< Line("INFO", "Generating Excel report"),
                                     Line("INFO", "Creating Summary sheet..."),
                                     Line("INFO", "Creating Data sheet..."),
                                     Line("INFO", "Adding charts to report...") >>,
                                  world.phaseB)
    /\ UNCHANGED << cfg, world, db, conns, df_raw, df_summary, df_processed,
                    output_file, mail >>

-----------------------------------------------------------------------------
(* Step 8: send_email, if configured *)

\* bool() of the raw string: every non-empty value counts as true
Truthy(v) == IF v = "" THEN "False" ELSE "True"

\* SectionProxy.getboolean('send_email', fallback=True)
GetBoolean(v) ==
    CASE v \in { "1", "yes", "true", "on" }  -> "True"
      [] v \in { "0", "no", "false", "off" } -> "False"
      [] v = "absent"                        -> "True"
      [] OTHER                               -> "ValueError"

\* where send_email stops: at the first statement that raises
EmailOutcome == IF ~cfg.email_settings_ok THEN "settings" ELSE world.email

\* message, attachment handle (a with block) and SMTP session (closed by
\* server.quit(), the last statement) when send_email stops at outcome
MailAfter(outcome) ==
    CASE outcome = "settings"    -> NoMail
      [] outcome = "attach_open" -> [ NoMail EXCEPT !.msg = "built" ]
      [] outcome = "attach_read" ->
             [ NoMail EXCEPT !.msg = "built", !.attachment = "closed" ]
      [] outcome = "connect"     ->
             [ NoMail EXCEPT !.msg = "attached", !.attachment = "closed" ]
      [] outcome \in { "starttls", "login", "send" } ->
             [ NoMail EXCEPT !.msg = "attached", !.attachment = "closed",
                             !.session = "open" ]
      [] OTHER ->
             [ msg |-> "attached", attachment |-> "closed",
               session |-> "closed", sent |-> TRUE ]

\* lines send_email prints before it stops at outcome
EmailLines(outcome) ==
    << Line("INFO", "Preparing to send email...") >>
    \o ( IF outcome = "settings" THEN << >>
         ELSE << Line("INFO", "Attaching file") >> )
    \o ( IF outcome \in { "settings", "attach_open", "attach_read" } THEN << >>
         ELSE << Line("INFO", "Connecting to SMTP server") >> )
    \o ( IF outcome \in { "login", "send", "ok" }
         THEN << Line("INFO", "Logging in to email account...") >> ELSE << >> )
    \o ( IF outcome \in { "send", "ok" }
         THEN << Line("INFO", "Sending email...") >> ELSE << >> )

\* the mail failure escapes to the handler of main
EmailUnhandled(lines, outcome) == Uncaught(lines, outcome)

\* except Exception in send_email: print twice and return
EmailHandled(lines, outcome) ==
    Continue(lines \o << LineE("ERROR", "Failed to send email", outcome),
                         Line("INFO", "Report was still generated successfully as Excel file.") >>,
             "banner", { "email_failed" })

Notify ==
    /\ pc = "notify"
    /\ IF ~cfg.email_section
       THEN /\ Uncaught(<< >>, "KeyError")
            /\ trace' = Append(trace, "notify")
            /\ UNCHANGED mail
       ELSE IF GetBoolean(cfg.send_email) = "ValueError"
       THEN /\ Uncaught(<< >>, "ValueError")
            /\ trace' = Append(trace, "notify")
            /\ UNCHANGED mail
       ELSE IF GetBoolean(cfg.send_email) = "False"
       THEN /\ Continue(<< Line("INFO", "Email sending is disabled in config.") >>,
                        "banner", {})
            /\ trace' = Append(trace, "notify")
            /\ UNCHANGED mail
       ELSE /\ trace' = trace \o << "notify", "send_email" >>
            /\ mail' = MailAfter(EmailOutcome)
            /\ IF EmailOutcome = "ok"
               THEN Continue(EmailLines("ok")
                                 \o << Line("SUCCESS", "Email sent successfully") >>,
                             "banner", {})
               ELSE EmailHandled(EmailLines(EmailOutcome), EmailOutcome)
    /\ UNCHANGED << cfg, world, db, conns, df_raw, df_summary, df_processed,
                    output_file, file >>

(* The completion banner; main returns and the process ends with status 0 *)

Banner ==
    /\ pc = "banner"
    /\ Start("banner")
    /\ log' = log \o << Line("INFO", "REPORT GENERATION COMPLETED SUCCESSFULLY!"),
                        LineE("INFO", "Report saved at", output_file) >>
    /\ pc' = "exit"
    /\ UNCHANGED << exitCode, failures, cfg, world, db, conns, df_raw, df_summary,
                    df_processed, output_file, file, mail >>

-----------------------------------------------------------------------------
(* Runs *)

Runs ==
    ( Settings \X { CalmWorld } \X { DefaultTable } )
    \cup ( { DefaultSettings, [ DefaultSettings EXCEPT !.send_email = "false" ] }
           \X Worlds \X { DefaultTable } )
    \cup ( { DefaultSettings } \X { CalmWorld } \X Tables )
    \cup ( { [ DefaultSettings EXCEPT !.output_path = p ] : p \in Paths }
           \X { [ CalmWorld EXCEPT !.clock = c ] : c \in Clocks }
           \X { DefaultTable } )

Init ==
    /\ \E run \in Runs : cfg = run[1] /\ world = run[2] /\ db = run[3]
    /\ pc = "load_config"
    /\ exitCode = 0
    /\ conns = [ opened |-> 0, open |-> 0 ]
    /\ df_raw = << >>
    /\ df_summary = << >>
    /\ df_processed = << >>
    /\ output_file = << >>
    /\ file = NoFile
    /\ mail = NoMail
    /\ log = << Line("INFO", "AUTOMATED EXCEL REPORTING SYSTEM") >>
    /\ trace = << >>
    /\ failures = {}

Next ==
    \/ LoadConfig
    \/ GetDbPath
    \/ FetchSalesData
    \/ GetSalesSummary
    \/ ProcessData
    \/ OutputFile
    \/ GenerateExcelReport
    \/ Notify
    \/ Banner

Spec == Init /\ [][Next]_vars

-----------------------------------------------------------------------------
(* Properties *)

Ran(step) == \E i \in DOMAIN trace : trace[i] = step

FatalFailures ==
    { "config_missing", "fetch_failed", "summary_failed", "phaseA_failed",
      "uncaught" }

NoFatal == failures \cap FatalFailures = {}

\* C1: a chart-attachment failure at any step (reopen, either chart, final
\* save) is logged and absorbed: the file on disk still has its Phase A
\* contents, generate_excel_report returns, main goes on to the notify step
\* and the failure does not make the exit status non-zero.
C1_ChartFailureKeepsPhaseA ==
    "chart_failed" \in failures =>
        /\ file = PhaseAFile(output_file, df_processed, df_summary)
        /\ Logged("Failed to add charts")
        /\ pc \in { "notify", "banner", "exit" }
        /\ (pc = "exit" => Ran("notify"))
        /\ (NoFatal => exitCode = 0)

\* C2: with the settings file absent the run ends with status 1 in
\* load_config: no store connection, no query result, no transform, no
\* output file, no notifier.
C2_MissingSettingsStopsTheRun ==
    ~cfg.exists =>
        /\ conns.opened = 0
        /\ df_raw = << >> /\ df_summary = << >> /\ df_processed = << >>
        /\ file.state = "absent"
        /\ mail = NoMail
        /\ \A i \in DOMAIN trace : trace[i] = "load_config"
        /\ (pc # "load_config" => pc = "exit" /\ exitCode = 1)

C2_Witness ==
    ~cfg.exists /\ pc = "exit" /\ Logged("config.ini file not found!")

\* C3: a failure at any step of the notifier is caught and logged inside the
\* notifier: the run goes on to the banner and ends with status 0, and the
\* notifier leaves the report file on disk as it found it.
C3_NotifierFailureAbsorbed ==
    /\ [] ( Ran("send_email") /\ EmailOutcome # "ok" =>
              /\ "email_failed" \in failures
              /\ Logged("Failed to send email")
              /\ ~Logged("Program failed")
              /\ file.state # "absent" /\ file.name = output_file
              /\ pc \in { "banner", "exit" }
              /\ exitCode = 0
              /\ (pc = "exit" => Logged("REPORT GENERATION COMPLETED SUCCESSFULLY!")) )
    /\ [][ pc = "notify" => file' = file ]_vars

C3_Witness ==
    /\ pc = "exit" /\ Ran("send_email") /\ EmailOutcome = "login"
    /\ mail.sent = FALSE

\* C4: the exit status is 1 exactly when a fatal condition occurred (missing
\* settings, a failed query, a Phase A failure, an exception no component
\* handles) and 0 otherwise; notifier and chart failures, alone or together,
\* leave it at 0.
C4_ExitCodeIffFatal ==
    /\ exitCode \in { 0, 1 }
    /\ (exitCode = 1 <=> ~NoFatal)
    /\ (~NoFatal => pc = "exit")

C4_Witness ==
    /\ pc = "exit" /\ exitCode = 0
    /\ failures = { "chart_failed", "email_failed" }

\* C5: every resource an operation opens (store connection, attachment
\* handle, mail session) is closed by the time the operation ends, on the
\* success path and on every failure path.
C5_ResourcesClosed ==
    /\ conns.open = 0
    /\ mail.attachment # "open"
    /\ mail.session # "open"

\* C6: with send_email set to false the notifier is never invoked (no
\* message built, no mail session opened), a log line says that sending is
\* disabled, and the run still ends with status 0.
C6_DisabledNotifierNeverRuns ==
    cfg.send_email \in { "false", "off" } =>
        /\ ~Ran("send_email")
        /\ ~Logged("Preparing to send email...")
        /\ mail = NoMail
        /\ (Ran("notify") /\ NoFatal =>
                /\ Logged("Email sending is disabled in config.")
                /\ pc \in { "banner", "exit" }
                /\ exitCode = 0)
        /\ (pc = "exit" /\ NoFatal =>
                /\ Ran("notify")
                /\ Logged("REPORT GENERATION COMPLETED SUCCESSFULLY!"))

C6_Witness ==
    /\ cfg.send_email = "false" /\ pc = "exit" /\ exitCode = 0
    /\ Logged("Email sending is disabled in config.")

\* C7: the steps of main occur in the fixed order load config, fetch raw
\* data, fetch summary, transform, output filename, write report,
\* conditionally notify, banner; a step starts only if every earlier step
\* ended without a fatal failure, and no step runs twice.
StepOrder ==
    << "load_config", "fetch_sales_data", "get_sales_summary", "process_data",
       "output_file", "generate_excel_report", "notify", "banner" >>

IsStep(x) == \E i \in DOMAIN StepOrder : StepOrder[i] = x

StepsRun == SelectSeq(trace, IsStep)

C7_FixedStepOrder ==
    /\ Len(StepsRun) <= Len(StepOrder)
    /\ StepsRun = SubSeq(StepOrder, 1, Len(StepsRun))
    /\ (~NoFatal => pc = "exit")
    /\ (pc = "exit" /\ NoFatal => StepsRun = StepOrder)
    /\ (pc # "exit" /\ pc # "db_path" =>
            Len(StepsRun) < Len(StepOrder) /\ pc = StepOrder[Len(StepsRun) + 1])

C7_Witness ==
    /\ pc = "exit" /\ StepsRun = StepOrder /\ Ran("send_email")

\* C8: the summary rows are ordered by descending total revenue, and rows
\* with equal total revenue appear in the order in which their (product,
\* category) keys first occur in the sales rows.
PairOf(r) == << r.product_name, r.category >>

FirstRow(pair) == CHOOSE i \in DOMAIN db :
    /\ PairOf(db[i]) = pair
    /\ \A j \in DOMAIN db : PairOf(db[j]) = pair => i <= j

SummaryReturned == Ran("get_sales_summary") /\ "summary_failed" \notin failures

C8_StableDescendingRevenue ==
    SummaryReturned =>
        \A i, j \in DOMAIN df_summary : i < j =>
            \/ df_summary[i].total_revenue > df_summary[j].total_revenue
            \/ /\ df_summary[i].total_revenue = df_summary[j].total_revenue
               /\ FirstRow(PairOf(df_summary[i])) < FirstRow(PairOf(df_summary[j]))

\* C8 as amended: the summary rows are ordered by non-increasing total
\* revenue; the order among rows with equal total revenue is not fixed.
C8_DescendingRevenue ==
    SummaryReturned =>
        \A i, j \in DOMAIN df_summary : i < j =>
            df_summary[i].total_revenue >= df_summary[j].total_revenue

C8_Witness ==
    /\ SummaryReturned /\ Len(df_summary) = 3
    /\ df_summary[1].total_revenue > df_summary[2].total_revenue
    /\ df_summary[2].total_revenue = df_summary[3].total_revenue

\* C9: the report filename is the configured path with _<YYYYMMDD_HHMMSS>
\* inserted exactly once, immediately before the final .xlsx, the rest of the
\* path unchanged, for every configured path.
NameComputed == Ran("output_file") /\ cfg.has_output_path

C9_StampOnceBeforeExtension ==
    NameComputed =>
        \E k \in 0..Len(cfg.output_path) :
            /\ StartsWith(SubSeq(cfg.output_path, k + 1, Len(cfg.output_path)), EXT)
            /\ \A j \in (k + 1)..Len(cfg.output_path) :
                   ~StartsWith(SubSeq(cfg.output_path, j + 1, Len(cfg.output_path)), EXT)
            /\ output_file = SubSeq(cfg.output_path, 1, k) \o Stamp(world.clock)
                                 \o SubSeq(cfg.output_path, k + 1, Len(cfg.output_path))

\* C10: grouping is exhaustive and disjoint: each (product_name, category)
\* pair of the raw rows has exactly one summary row, no other pair has one,
\* the row's count, quantity and revenue are those of exactly the raw rows
\* with the pair, and so the summary's revenue and quantity sums (the totals
\* line of the report) are the sums over all raw rows.
RowsOf(pair) == { i \in DOMAIN db : PairOf(db[i]) = pair }

RECURSIVE Total(_, _)
Total(s, col) == IF s = << >> THEN 0 ELSE Head(s)[col] + Total(Tail(s), col)

C10_GroupingExhaustiveDisjoint ==
    SummaryReturned =>
        /\ \A i \in DOMAIN db :
               Cardinality({ n \in DOMAIN df_summary :
                               PairOf(df_summary[n]) = PairOf(db[i]) }) = 1
        /\ \A n \in DOMAIN df_summary :
               LET rows == RowsOf(PairOf(df_summary[n]))
               IN /\ rows # {}
                  /\ df_summary[n].total_sales = Cardinality(rows)
                  /\ df_summary[n].total_quantity =
                         Total(SelectSeq(db, LAMBDA r : PairOf(r) = PairOf(df_summary[n])),
                               "quantity")
                  /\ df_summary[n].total_revenue =
                         Total(SelectSeq(db, LAMBDA r : PairOf(r) = PairOf(df_summary[n])),
                               "total_amount")
        /\ Total(df_summary, "total_revenue") = Total(db, "total_amount")
        /\ Total(df_summary, "total_quantity") = Total(db, "quantity")
        /\ (file.state = "written" =>
                /\ file.total_revenue = Total(db, "total_amount")
                /\ file.total_quantity = Total(db, "quantity"))

C10_Witness ==
    /\ file.state = "written" /\ Len(db) = 3 /\ Len(df_summary) = 2
    /\ df_summary[1].product_name = df_summary[2].product_name
    /\ df_summary[1].total_sales = 2

\* C11: with the header of the n summary rows at row 5 and the data at rows
\* 6..5+n, each chart's series range begins at the header cell of its column
\* (revenue for the bar chart, quantity for the line chart), so that the
\* header is the series title and the n data rows are the data points, and
\* the categories are the product names of exactly those n rows.
SummaryDataRows(f) == (f.header_row + 1)..(f.header_row + Len(f.summary))

ChartColumn(chart) ==
    IF chart.type = "bar" THEN ColumnOf("total_revenue")
    ELSE ColumnOf("total_quantity")

C11_ChartRangesMatchSummaryRows ==
    file.charts # << >> =>
        /\ file.header_row = 5
        /\ \A c \in DOMAIN file.charts :
               /\ file.charts[c].data.min_col = ChartColumn(file.charts[c])
               /\ SeriesTitleRow(file.charts[c]) = file.header_row
               /\ SeriesDataRows(file.charts[c]) = SummaryDataRows(file)
               /\ file.charts[c].categories.min_col = ColumnOf("product_name")
               /\ CategoryRows(file.charts[c]) = SummaryDataRows(file)

====
